---------------------------- MODULE Spec2Model ----------------------------
(***************************************************************************)
(* Key-sequence remapping engine of vimb (src/src/map.c).                  *)
(*                                                                         *)
(* The static struct `map` (list, queue, qlen, resolved, timout_id), the   *)
(* GLib timeout sources, the active mode with its FLAG_NOMAP flag and the  *)
(* position inside map_handle_keys are the state.  map_handle_keys is      *)
(* stepped one loop iteration at a time (its resolution loop need not      *)
(* terminate), everything else is one action per function.                 *)
(*                                                                         *)
(* A replacement that writes behind map.queue, and a walk of the list      *)
(* map_cleanup has freed, are undefined behaviour: the model goes to pc =  *)
(* "ub" with map.qlen holding any value the stray writes can leave, and    *)
(* follows the run no further.  After map_cleanup only a timeout source    *)
(* that is still attached runs; the program takes no more keys and changes *)
(* no more mappings.  The display buffer (showcmd) takes no part in the    *)
(* resolution and is left out.                                             *)
(*                                                                         *)
(* Bytes are their character codes.  Queue slots at index >= qlen hold     *)
(* leftovers; they are kept as the single value Garbage, which is no key   *)
(* byte, so that any use of such a slot (the "delete some keys" loop reads *)
(* some) shows up if it reaches the valid part of the queue.               *)
(***************************************************************************)
EXTENDS Integers, Sequences, FiniteSets, TLC

(***************************************************************************)
(* Bounds of the model.                                                    *)
(***************************************************************************)
\* LENGTH(map.queue), i.e. MAP_QUEUE_SIZE of config.h (not part of src/).
Capacity == 3
\* Largest number of records map_insert is allowed to build up.
MaxMaps == 2
\* Number of forwarded bytes the history of one map_handle_keys call keeps.
MaxOut == 4
\* Source ids handed out by g_timeout_add wrap around after this one.
MaxSourceId == 2

(***************************************************************************)
(* Values.                                                                 *)
(***************************************************************************)
\* content of a queue slot that holds no queued byte
Garbage == 0
\* key bytes fed by map_keypress: a, b, c
Keys == {97, 98, 99}
\* mode ids: 'n' and 'i'
Modes == {110, 105}
\* key sequences handed to map_handle_keys: the single keys, the pairs
\* ab, bc and cc, and a run of c one byte longer than the queue holds
KeyInputs ==
    {<<k>> : k \in Keys} \cup {<<97, 98>>, <<98, 99>>, <<99, 99>>}
        \cup {[i \in 1..(Capacity + 1) |-> 99]}
\* (lhs, rhs, mode) handed to map_insert:
\*   ab -> x,  a -> 1,  ab -> 2,  c -> cab,  a -> aa  in mode n,
\*   a -> 1  in mode i
MapInputs ==
    { <<<<97, 98>>, <<120>>, 110>>,
      <<<<97>>, <<49>>, 110>>,
      <<<<97, 98>>, <<50>>, 110>>,
      <<<<99>>, <<99, 97, 98>>, 110>>,
      <<<<97>>, <<97, 97>>, 110>>,
      <<<<97>>, <<49>>, 105>> }
\* lhs texts handed to map_delete: a and ab, each the lhs of several records
DeleteTexts == {<<97>>, <<97, 98>>}

NULL == 0

VARIABLES
    list,       \* map.list: sequence of Map records, head first
    queue,      \* map.queue: [0..Capacity-1 -> byte]
    qlen,       \* map.qlen
    resolved,   \* map.resolved
    timout_id,  \* map.timout_id
    sources,    \* ids of the timeout sources attached to the GLib main loop
    mode,       \* vb.mode->id
    flags,      \* FLAG_NOMAP of each mode's flags
    cleaned,    \* map_cleanup has run
    pc,         \* "idle", "loop" (inside map_handle_keys), "ub"
    timeout,    \* local `timeout` of the running map_handle_keys call
    match,      \* local `match`: index into list, NULL when none
                \* (both locals are gone, FALSE and NULL, once the call returns)
    oobread,    \* the last substitution read map.queue past its end
    lookq,      \* history: the queued bytes the last lookup looked at
    cur,        \* history: the running or last map_handle_keys call
    prev,       \* history: the call before it, if it returned AMBIGUOUS
    del,        \* history: the map_delete call just made
    conv        \* history: the map_convert_keys call just made

vars == <<list, queue, qlen, resolved, timout_id, sources, mode, flags,
          cleaned, pc, timeout, match, oobread, lookq, cur, prev, del, conv>>

\* what map_handle_keys and the table functions work on
enginevars == <<list, queue, qlen, resolved, timout_id, sources, mode, flags,
                cleaned, pc, timeout, match, oobread, lookq, cur, prev, del>>

mapvars == <<list, queue, qlen, resolved, timout_id>>

\* the first n bytes of a queue array as a sequence
QSeq(q, n) == [i \in 1..n |-> q[i - 1]]

\* a queue array with every slot from n on forgotten
Norm(q, n) == [i \in 0..(Capacity - 1) |-> IF i < n THEN q[i] ELSE Garbage]

\* keys, timeout: the arguments; q0: the bytes queued at entry; nomap:
\* FLAG_NOMAP at entry; out: the first MaxOut bytes forwarded; ret: the
\* value returned; any: a replacement or a literal fallback has happened;
\* cset: mode_handle_key set FLAG_NOMAP on the byte forwarded last
NoDelete == [in |-> <<>>, mode |-> 0, ret |-> "NONE"]

NoConvert == [in |-> <<>>, str |-> <<>>, len |-> 0]

NoCall ==
    [keys |-> <<>>, timeout |-> FALSE, q0 |-> <<>>, out |-> <<>>,
     ret |-> "NONE", any |-> FALSE, nomap |-> FALSE, cset |-> FALSE]


(***************************************************************************)
(* Key-notation translator: map_convert_keylabel, map_convert_keys.        *)
(* A text is a sequence of character codes; in[p] below is the C p[0].     *)
(***************************************************************************)
\* the table keys[] of map_convert_keylabel: <CR>, <Tab>, <Esc>
KeyLabels ==
    << [label |-> <<60, 67, 82, 62>>,      ch |-> <<10>>],
       [label |-> <<60, 84, 97, 98, 62>>,  ch |-> <<9>>],
       [label |-> <<60, 69, 115, 99, 62>>, ch |-> <<27>>] >>

\* map_convert_keylabel: the raw bytes of the label `sym`, <<>> (len 0) if
\* it is no known label; the first table entry that fits is taken
map_convert_keylabel(sym) ==
    LET hits == {i \in 1..Len(KeyLabels) : KeyLabels[i].label = sym}
    IN  IF hits = {} THEN <<>>
        ELSE KeyLabels[CHOOSE i \in hits : \A j \in hits : i <= j].ch

\* the do-while of map_convert_keys searching the closing > of the token
\* that starts at in[p]: the value of symlen when the loop is left
RECURSIVE ScanSym(_, _, _)
ScanSym(in, p, symlen) ==
    IF p + symlen > Len(in) \/ in[p + symlen] = 60 \/ in[p + symlen] = 32
    THEN symlen
    ELSE IF in[p + symlen] = 62 THEN symlen + 1
         ELSE ScanSym(in, p, symlen + 1)

\* mutant: a lower-case letter is shifted like an upper-case one
ConvertSymOneShift(in, p, symlen) ==
    LET found == in[p + symlen - 1] = 62
        ctrl  == IF found /\ symlen = 5 /\ in[p + 2] = 45 /\ in[p + 1] = 67
                 THEN IF (in[p + 3] >= 65 /\ in[p + 3] <= 93)
                         \/ (in[p + 3] >= 97 /\ in[p + 3] <= 122)
                      THEN <<in[p + 3] - 64>>
                      ELSE <<>>
                 ELSE <<>>
        raw   == IF ~found THEN <<>>
                 ELSE IF ctrl # <<>> THEN ctrl
                      ELSE map_convert_keylabel(SubSeq(in, p, p + symlen - 1))
    IN  IF Len(raw) = 0 THEN SubSeq(in, p, p + symlen - 1) ELSE raw

\* the bytes map_convert_keys appends for the token in[p .. p+symlen-1]
ConvertSym(in, p, symlen) ==
    LET found == in[p + symlen - 1] = 62
        ctrl  == IF found /\ symlen = 5 /\ in[p + 2] = 45 /\ in[p + 1] = 67
                 THEN IF in[p + 3] >= 65 /\ in[p + 3] <= 93
                      THEN <<in[p + 3] - 64>>
                      ELSE IF in[p + 3] >= 97 /\ in[p + 3] <= 122
                           THEN <<in[p + 3] - 96>>
                           ELSE <<>>
                 ELSE <<>>
        raw   == IF ~found THEN <<>>
                 ELSE IF ctrl # <<>> THEN ctrl
                      ELSE map_convert_keylabel(SubSeq(in, p, p + symlen - 1))
    IN  IF Len(raw) = 0 THEN SubSeq(in, p, p + symlen - 1) ELSE raw

\* the for loop of map_convert_keys from position p on, str the GString
RECURSIVE ConvertFrom(_, _, _)
ConvertFrom(in, p, str) ==
    IF p > Len(in) THEN str
    ELSE IF in[p] # 60 THEN ConvertFrom(in, p + 1, Append(str, in[p]))
         ELSE LET symlen == ScanSym(in, p, 1)
              IN  ConvertFrom(in, p + symlen, str \o ConvertSym(in, p, symlen))

\* map_convert_keys: the raw key sequence of a text, the string returned
map_convert_keys(in) == ConvertFrom(in, 1, <<>>)

\* the rawlen map_convert_keys adds to *len for the token in[p .. p+symlen-1]
RawLen(in, p, symlen) ==
    LET found  == in[p + symlen - 1] = 62
        ctrl   == /\ found /\ symlen = 5 /\ in[p + 2] = 45 /\ in[p + 1] = 67
                  /\ \/ in[p + 3] >= 65 /\ in[p + 3] <= 93
                     \/ in[p + 3] >= 97 /\ in[p + 3] <= 122
        rawlen == IF ctrl THEN 1
                  ELSE IF found
                       THEN Len(map_convert_keylabel(SubSeq(in, p,
                                                            p + symlen - 1)))
                       ELSE 0
    IN  IF rawlen = 0 THEN symlen ELSE rawlen

\* the for loop of map_convert_keys from position p on, len the value of *len
RECURSIVE ConvertLen(_, _, _)
ConvertLen(in, p, len) ==
    IF p > Len(in) THEN len
    ELSE IF in[p] # 60 THEN ConvertLen(in, p + 1, len + 1)
         ELSE LET symlen == ScanSym(in, p, 1)
              IN  ConvertLen(in, p + symlen, len + RawLen(in, p, symlen))

\* map_convert_keys: the length stored in *len
map_convert_len(in) == ConvertLen(in, 1, 0)


(***************************************************************************)
(* Helpers of map_handle_keys.                                             *)
(***************************************************************************)
\* map.queue[j]; an index past the array reads whatever lies behind it
Rd(q, j) == IF j \in DOMAIN q THEN q[j] ELSE Garbage

\* !strncmp(s, map.queue, n): s is a NUL-terminated string, compared
\* byte by byte with the queue up to n bytes or up to the NUL of s
StrNCmpEq(s, q, n) ==
    \A i \in 0..(n - 1) :
        i <= Len(s) => (IF i < Len(s) THEN s[i + 1] ELSE 0) = Rd(q, i)

\* the loop copying the keys onto the end of the queue
RECURSIVE CopyKeys(_, _, _)
CopyKeys(q, n, keys) ==
    IF n < Capacity /\ Len(keys) > 0
    THEN CopyKeys([q EXCEPT ![n] = Head(keys)], n + 1, Tail(keys))
    ELSE [queue |-> q, qlen |-> n]

\* the id g_timeout_add hands out after the id old: GLib counts them up
NewSourceId(old) == (old % MaxSourceId) + 1

\* mutant: a record as long as the match found replaces it
BetterMatchOrEqual(m0, m) == m0 = NULL \/ list[m0].inlen <= m.inlen

\* (!match || match->inlen < m->inlen), m0 the index of match
BetterMatch(m0, m) == m0 = NULL \/ list[m0].inlen < m.inlen

\* mutant: the timeout does not switch the ambiguity test off
IsAmbiguousOnTimeout(m) ==
    m.inlen > qlen /\ StrNCmpEq(m.in, queue, qlen)

\* mutant: a lhs as long as the queue counts as needing more keys
IsAmbiguousOrEqual(m) ==
    ~timeout /\ m.inlen >= qlen /\ StrNCmpEq(m.in, queue, qlen)

\* m counts as ambiguous
IsAmbiguous(m) ==
    ~timeout /\ m.inlen > qlen /\ StrNCmpEq(m.in, queue, qlen)

\* m matches the head of the queue completely
IsFullMatch(m) == m.inlen <= qlen /\ StrNCmpEq(m.in, queue, m.inlen)

\* mutant: the records of every mode are looked at
OtherModeNever(m) == FALSE

\* "skip maps that are not for the current mode"
OtherMode(m) == m.mode # mode

\* the for loop over map.list from its i-th link on
RECURSIVE ScanMaps(_, _, _)
ScanMaps(i, m0, ambiguous) ==
    IF i > Len(list) THEN [match |-> m0, ambiguous |-> ambiguous]
    ELSE LET m == list[i]
         IN  IF OtherMode(m) THEN ScanMaps(i + 1, m0, ambiguous)
             ELSE ScanMaps(i + 1,
                           IF IsFullMatch(m) /\ BetterMatch(m0, m)
                           THEN i ELSE m0,
                           IF IsAmbiguous(m)
                           THEN ambiguous + 1 ELSE ambiguous)

\* mutant: a complete match is taken at once, without waiting for the keys
\* a longer lhs still needs
FindMatchesEager ==
    IF flags[mode] THEN [match |-> NULL, ambiguous |-> 0]
    ELSE LET f == ScanMaps(1, NULL, 0)
         IN  IF f.match # NULL THEN [match |-> f.match, ambiguous |-> 0]
             ELSE f

\* match and ambiguous after the "try to find matching maps" block
FindMatches ==
    IF flags[mode] THEN [match |-> NULL, ambiguous |-> 0]
    ELSE ScanMaps(1, NULL, 0)

\* "make some space within the queue": queue[--i] = queue[--j]
RECURSIVE GrowLoop(_, _, _, _)
GrowLoop(q, i, j, inlen) ==
    IF j > inlen
    THEN GrowLoop([q EXCEPT ![i - 1] = q[j - 1]], i - 1, j - 1, inlen)
    ELSE q

\* "delete some keys": queue[i++] = queue[j++] while i < map.qlen
RECURSIVE ShrinkLoop(_, _, _, _)
ShrinkLoop(q, i, j, n) ==
    IF i < n
    THEN ShrinkLoop([q EXCEPT ![i] = Rd(q, j)], i + 1, j + 1, n)
    ELSE q

\* strncpy(map.queue, match->mapped, match->mappedlen)
CopyMapped(q, mapped) ==
    [i \in DOMAIN q |-> IF i < Len(mapped) THEN mapped[i + 1] ELSE q[i]]

\* the queue after the replacement of the matched chars by m's mapped ones
ReplaceMatched(q, n, m) ==
    CopyMapped(IF m.inlen < m.mappedlen
               THEN GrowLoop(q, n + m.mappedlen - m.inlen, n, m.inlen)
               ELSE IF m.inlen > m.mappedlen
                    THEN ShrinkLoop(q, m.mappedlen, m.inlen, n)
                    ELSE q,
               m.mapped)

\* mutant: the whole rhs counts as resolved
ResolvedAfterWholeRhs(m) == m.mappedlen

\* map.resolved after a replacement
ResolvedAfter(m) == IF m.inlen <= m.mappedlen THEN m.inlen ELSE m.mappedlen

\* the replacement writes behind the end of map.queue
OverflowsQueue(n, m) == n + m.mappedlen - m.inlen > Capacity

\* the "delete some keys" loop reads behind the end of map.queue
ReadsPastQueue(n, m) ==
    /\ m.inlen > m.mappedlen
    /\ m.mappedlen < n
    /\ n - 1 + m.inlen - m.mappedlen >= Capacity

\* mutant: the two results the wrong way round
ReturnValueInverted(m0) == IF m0 # NULL THEN "NOMATCH" ELSE "DONE"

\* the value map_handle_keys returns once the queue is empty
ReturnValue(m0) == IF m0 # NULL THEN "DONE" ELSE "NOMATCH"


(***************************************************************************)
(* Initial state: the zeroed static struct, no mapping, no timer, normal   *)
(* mode with no flag set.                                                  *)
(***************************************************************************)
Init ==
    /\ list = <<>>
    /\ queue = [i \in 0..(Capacity - 1) |-> Garbage]
    /\ qlen = 0
    /\ resolved = 0
    /\ timout_id = 0
    /\ sources = {}
    /\ mode = 110
    /\ flags = [m \in Modes |-> FALSE]
    /\ cleaned = FALSE
    /\ pc = "idle"
    /\ timeout = FALSE
    /\ match = NULL
    /\ oobread = FALSE
    /\ lookq = <<>>
    /\ cur = NoCall
    /\ prev = NoCall
    /\ del = NoDelete
    /\ conv = NoConvert

\* The history variables describe calls under one table and one mode: a
\* change of either starts them anew.
ForgetCalls ==
    /\ cur' = NoCall /\ prev' = NoCall
    /\ lookq' = <<>> /\ oobread' = FALSE

Forget == ForgetCalls /\ del' = NoDelete

(***************************************************************************)
(* Mapping table.                                                          *)
(***************************************************************************)
\* map_insert(in, mapped, mode): the new record is prepended
map_insert(in, mapped, md) ==
    /\ pc = "idle" /\ ~cleaned
    /\ Len(list) < MaxMaps
    /\ LET lhs == map_convert_keys(in)
           rhs == map_convert_keys(mapped)
           new == [in |-> lhs, inlen |-> map_convert_len(in),
                   mapped |-> rhs, mappedlen |-> map_convert_len(mapped),
                   mode |-> md]
       IN  list' = <<new>> \o list
    /\ Forget
    /\ UNCHANGED <<queue, qlen, resolved, timout_id, sources, mode, flags,
                   cleaned, pc, timeout, match, conv>>

\* mutant: the mode of the record is not compared
DeleteLinkAnyMode(lhs, md) ==
    LET hits == {i \in 1..Len(list) :
                    /\ list[i].inlen = Len(lhs)
                    /\ list[i].in = lhs}
    IN  IF hits = {} THEN 0 ELSE CHOOSE i \in hits : \A j \in hits : i <= j

\* the link map_delete unlinks: the first one with that mode and lhs
DeleteLink(lhs, md) ==
    LET hits == {i \in 1..Len(list) :
                    /\ list[i].mode = md
                    /\ list[i].inlen = Len(lhs)
                    /\ list[i].in = lhs}
    IN  IF hits = {} THEN 0 ELSE CHOOSE i \in hits : \A j \in hits : i <= j

\* map_delete(in, mode)
map_delete(in, md) ==
    /\ pc = "idle" /\ ~cleaned
    /\ LET l == DeleteLink(map_convert_keys(in), md)
       IN  /\ list' = IF l = 0 THEN list
                       ELSE SubSeq(list, 1, l - 1)
                                \o SubSeq(list, l + 1, Len(list))
           /\ del' = [in |-> in, mode |-> md, ret |-> IF l # 0 THEN "true" ELSE "false"]
    /\ ForgetCalls
    /\ UNCHANGED <<queue, qlen, resolved, timout_id, sources, mode, flags,
                   cleaned, pc, timeout, match, conv>>

\* map_cleanup: the records are freed; map.list keeps pointing at them and
\* map.timout_id is left alone
map_cleanup ==
    /\ pc = "idle" /\ ~cleaned
    /\ cleaned' = TRUE
    /\ Forget
    /\ UNCHANGED <<list, queue, qlen, resolved, timout_id, sources, mode,
                   flags, pc, timeout, match, conv>>

\* mode_enter(id): another mode becomes vb.mode
mode_enter(id) ==
    /\ pc = "idle" /\ ~cleaned
    /\ id # mode
    /\ mode' = id
    /\ Forget
    /\ UNCHANGED <<list, queue, qlen, resolved, timout_id, sources, flags,
                   cleaned, pc, timeout, match, conv>>

(***************************************************************************)
(* map_handle_keys.                                                        *)
(***************************************************************************)
\* mutant: the source set before is not removed
ArmTimerKeepOld ==
    /\ timout_id' = NewSourceId(timout_id)
    /\ sources' = sources \cup {NewSourceId(timout_id)}

\* the timer handling at the head of a call that is no timeout: a source
\* set before is removed and a new one added
ArmTimer ==
    /\ timout_id' = NewSourceId(timout_id)
    /\ sources' = (IF timout_id # 0 THEN sources \ {timout_id} ELSE sources)
                      \cup {NewSourceId(timout_id)}

\* map_handle_keys from the copy of the keys up to the resolution loop
Enter(keys, to) ==
    /\ LET c == CopyKeys(queue, qlen, keys)
       IN  queue' = c.queue /\ qlen' = c.qlen
    /\ timeout' = to
    /\ match' = NULL
    /\ pc' = "loop"
    /\ prev' = IF cur.ret = "AMBIGUOUS" THEN cur ELSE NoCall
    /\ cur' = [keys |-> keys, timeout |-> to, q0 |-> QSeq(queue, qlen),
               out |-> <<>>, ret |-> "RUNNING", any |-> FALSE,
               nomap |-> flags[mode], cset |-> FALSE]
    /\ lookq' = <<>> /\ oobread' = FALSE
    /\ del' = NoDelete
    /\ UNCHANGED <<list, resolved, mode, flags, cleaned, conv>>

\* map_handle_keys(keys, keylen) with keylen > 0, as map_keypress calls it
map_handle_keys(keys) ==
    /\ pc = "idle" /\ ~cleaned
    /\ ArmTimer
    /\ Enter(keys, FALSE)

\* the sources left once the source id has fired and returned false
AfterFire(id) == sources \ {id}

\* map_timeout: the source id fires and calls map_handle_keys("", 0)
map_timeout(id) ==
    /\ pc = "idle"
    /\ id \in sources
    /\ sources' = AfterFire(id)
    /\ UNCHANGED timout_id
    /\ Enter(<<>>, TRUE)

\* mutant: the entries are not moved
ShiftLeftNot(q, n) == q

\* "move all other queue entries one step to the left", n the new map.qlen
ShiftLeft(q, n) ==
    [i \in DOMAIN q |-> IF i < n THEN q[i + 1] ELSE q[i]]

\* mutant: the flag is left as it is
ClearNomapNot(f) == f

\* "remove the nomap flag": vb.mode->flags &= ~FLAG_NOMAP
ClearNomap(f) == FALSE

\* whether mode_handle_key sets FLAG_NOMAP of the active mode
ModeHandleKeyNomap == BOOLEAN

\* one round of "send any resolved key to the parser"
Drain ==
    /\ pc = "loop"
    /\ resolved > 0
    /\ resolved' = resolved - 1
    /\ qlen' = qlen - 1
    /\ queue' = Norm(ShiftLeft(queue, qlen - 1), qlen - 1)
    /\ \E f \in ModeHandleKeyNomap :
           /\ flags' = [flags EXCEPT ![mode] = ClearNomap(@) \/ f]
           /\ cur' = [cur EXCEPT
                         !.out = IF Len(@) < MaxOut THEN Append(@, queue[0])
                                 ELSE @,
                         !.cset = f]
    /\ UNCHANGED <<list, timout_id, sources, mode, cleaned, pc, timeout,
                   match, oobread, lookq, prev, del, conv>>

\* "if all keys where processed return"
Return ==
    /\ pc = "loop"
    /\ resolved = 0
    /\ qlen = 0
    /\ resolved' = 0
    /\ pc' = "idle"
    /\ cur' = [cur EXCEPT !.ret = ReturnValue(match)]
    /\ match' = NULL /\ timeout' = FALSE
    /\ UNCHANGED <<list, queue, qlen, timout_id, sources, mode, flags,
                   cleaned, oobread, lookq, prev, del, conv>>

\* the values map.qlen may hold once a replacement has written n bytes into
\* and behind map.queue, which it follows in memory, and has been added to
Clobbered(n) == 0..n

\* the rest of one round of the resolution loop: the lookup and what
\* follows from it
Lookup ==
    /\ pc = "loop"
    /\ resolved = 0
    /\ qlen > 0
    /\ lookq' = QSeq(queue, qlen)
    /\ IF cleaned /\ list # <<>> /\ ~flags[mode]
       THEN \* the list walked has been freed
            /\ pc' = "ub"
            /\ UNCHANGED <<queue, qlen, resolved, match, timeout, oobread,
                           cur>>
       ELSE LET f == FindMatches
            IN  /\ match' = IF f.ambiguous > 0 THEN NULL ELSE f.match
                /\ IF f.ambiguous > 0
                   THEN /\ pc' = "idle"
                        /\ cur' = [cur EXCEPT !.ret = "AMBIGUOUS"]
                        /\ UNCHANGED <<queue, qlen, resolved, oobread>>
                   ELSE IF f.match # NULL
                   THEN LET m == list[f.match]
                        IN  IF OverflowsQueue(qlen, m)
                            THEN /\ pc' = "ub"
                                 /\ \/ qlen' = qlen + m.mappedlen - m.inlen
                                    \/ qlen' \in Clobbered(qlen + m.mappedlen
                                                               - m.inlen)
                                 /\ resolved' = ResolvedAfter(m)
                                 /\ UNCHANGED <<queue, oobread, cur>>
                            ELSE /\ pc' = "loop"
                                 /\ qlen' = qlen + m.mappedlen - m.inlen
                                 /\ queue' = Norm(ReplaceMatched(queue, qlen, m),
                                                  qlen + m.mappedlen - m.inlen)
                                 /\ resolved' = ResolvedAfter(m)
                                 /\ oobread' = ReadsPastQueue(qlen, m)
                                 /\ cur' = [cur EXCEPT !.any = TRUE]
                   ELSE /\ pc' = "loop"
                        /\ resolved' = 1
                        /\ cur' = [cur EXCEPT !.any = TRUE]
                        /\ UNCHANGED <<queue, qlen, oobread>>
                /\ timeout' = IF f.ambiguous > 0 THEN FALSE ELSE timeout
    /\ UNCHANGED <<list, timout_id, sources, mode, flags, cleaned, prev,
                   del, conv>>

Next ==
    \/ \E t \in MapInputs : map_insert(t[1], t[2], t[3])
    \/ \E in \in DeleteTexts, md \in Modes : map_delete(in, md)
    \/ map_cleanup
    \/ \E id \in Modes : mode_enter(id)
    \/ \E keys \in KeyInputs : map_handle_keys(keys)
    \/ \E id \in sources : map_timeout(id)
    \/ Drain
    \/ Return
    \/ Lookup

Spec == Init /\ [][Next]_vars

(***************************************************************************)
(* The resolution loop under fairness: a call that has been entered keeps  *)
(* running, and the GLib main loop dispatches a timeout source that stays  *)
(* attached while the program is idle.                                     *)
(***************************************************************************)
Fairness ==
    /\ WF_vars(Drain)
    /\ WF_vars(Return)
    /\ WF_vars(Lookup)
    /\ WF_vars(\E id \in sources : map_timeout(id))

FairSpec == Init /\ [][Next]_vars /\ Fairness

(***************************************************************************)
(* The translator on its own: map_convert_keys applied to the texts of    *)
(* ConvertTexts, a <C-x> token for every character x from @ to {, alone    *)
(* and between plain characters, and the labels of map_convert_keylabel.   *)
(***************************************************************************)
CtrlToken(x) == <<60, 67, 45, x, 62>>

ConvertTexts ==
    {pre \o CtrlToken(x) \o post :
        x \in 64..123, pre \in {<<>>, <<97>>}, post \in {<<>>, <<98>>}}
    \cup {KeyLabels[i].label : i \in 1..Len(KeyLabels)}
    \cup {<<60, 67, 45, 97>>, <<60, 65, 45, 97, 62>>, <<97, 98>>}

\* one call map_convert_keys(in, strlen(in), &len)
Convert(in) ==
    /\ conv' = [in |-> in, str |-> map_convert_keys(in),
                len |-> map_convert_len(in)]
    /\ UNCHANGED enginevars

ConvertNext == \E in \in ConvertTexts : Convert(in)

ConvertSpec == Init /\ [][ConvertNext]_vars


(***************************************************************************)
(* Vocabulary of the properties.                                           *)
(***************************************************************************)
Range(s) == {s[i] : i \in 1..Len(s)}

IsPrefix(s, t) == Len(s) <= Len(t) /\ SubSeq(t, 1, Len(s)) = s

\* the records of the active mode, most recently inserted first
ActiveMaps == SelectSeq(list, LAMBDA m : m.mode = mode)

\* the record map_insert builds from raw sides lhs and rhs
Rec(lhs, rhs, md) ==
    [in |-> lhs, inlen |-> Len(lhs), mapped |-> rhs, mappedlen |-> Len(rhs),
     mode |-> md]

\* a map_handle_keys call has returned and nothing else has happened since
Returned == pc = "idle" /\ cur.ret \in {"DONE", "NOMATCH", "AMBIGUOUS"}

\* this step is the entry of a call that is no timeout
RealEntry == pc = "idle" /\ pc' = "loop" /\ ~timeout'

\* this step is the entry of a timeout call
TimeoutEntry == pc = "idle" /\ pc' = "loop" /\ timeout'

\* the lookup of the resolution loop is the next step
AtLookup == pc = "loop" /\ resolved = 0 /\ qlen > 0

\* the calls of cur and prev are "a" fed to an empty queue with the
\* suppress-remap flag clear, and, right after it, the call of cur
AfterFirstA ==
    /\ prev.keys = <<97>> /\ prev.q0 = <<>> /\ ~prev.timeout /\ ~prev.nomap

(***************************************************************************)
(* C1: 0 <= resolved <= qlen <= capacity in every state; in particular no  *)
(* substitution with rhs longer than lhs makes qlen exceed the capacity.   *)
(* (Stated as the claim states it; the code breaks it.)                    *)
(***************************************************************************)
C1_QueueBounds == 0 <= resolved /\ resolved <= qlen /\ qlen <= Capacity

(***************************************************************************)
(* C2: the only record of the active mode being ab -> x, the queue empty   *)
(* and the suppress-remap flag clear, the call "a" returns AMBIGUOUS and   *)
(* forwards nothing, and the call "b" right after it forwards exactly the  *)
(* byte x and returns DONE.                                                *)
(***************************************************************************)
C2_Table == ActiveMaps = <<Rec(<<97, 98>>, <<120>>, mode)>>

C2_TwoCalls ==
    /\ (C2_Table /\ Returned /\ cur.keys = <<97>> /\ cur.q0 = <<>>
            /\ ~cur.nomap)
        => (cur.ret = "AMBIGUOUS" /\ cur.out = <<>>)
    /\ (C2_Table /\ AfterFirstA /\ cur.keys = <<98>>)
        => /\ prev.out = <<>>
           /\ IsPrefix(cur.out, <<120>>)
           /\ Returned => (cur.out = <<120>> /\ cur.ret = "DONE")
           /\ pc # "ub"

C2_Witness ==
    /\ C2_Table /\ AfterFirstA /\ Returned
    /\ cur.keys = <<98>> /\ cur.out = <<120>> /\ cur.ret = "DONE"


(***************************************************************************)
(* C3: when the lookup of a call that is no timeout finds a record of the  *)
(* active mode whose lhs is longer than the queue and starts with the      *)
(* whole queue, the call returns AMBIGUOUS at once and none of the queued  *)
(* bytes is forwarded or changed, whether or not a shorter record matches  *)
(* completely.  With a -> 1 and ab -> 2 the active records, the queue      *)
(* empty and the suppress-remap flag clear: "a" returns AMBIGUOUS with     *)
(* nothing forwarded, and "b" right after it forwards 2 and never 1.       *)
(***************************************************************************)
C3_Table ==
    /\ Len(ActiveMaps) = 2
    /\ Range(ActiveMaps) =
           {Rec(<<97>>, <<49>>, mode), Rec(<<97, 98>>, <<50>>, mode)}

\* some record of the active mode is longer than the queue and starts
\* with all of it
LongerCandidate ==
    \E i \in 1..Len(list) :
        /\ list[i].mode = mode
        /\ Len(list[i].in) > qlen
        /\ SubSeq(list[i].in, 1, qlen) = QSeq(queue, qlen)

C3_LookupStep ==
    (AtLookup /\ ~timeout /\ ~flags[mode] /\ LongerCandidate)
        => /\ pc' = "idle" /\ cur'.ret = "AMBIGUOUS"
           /\ cur'.out = cur.out
           /\ queue' = queue /\ qlen' = qlen /\ resolved' = 0

C3_Scenario ==
    /\ (C3_Table /\ Returned /\ cur.keys = <<97>> /\ cur.q0 = <<>>
            /\ ~cur.nomap)
        => (cur.ret = "AMBIGUOUS" /\ cur.out = <<>>)
    /\ (C3_Table /\ AfterFirstA /\ cur.keys = <<98>>)
        => /\ prev.out = <<>>
           /\ IsPrefix(cur.out, <<50>>)
           /\ Returned => cur.out = <<50>>
           /\ pc # "ub"

C3_Ambiguous == []C3_Scenario /\ [][C3_LookupStep]_vars

C3_Witness ==
    /\ C3_Table /\ AfterFirstA /\ Returned
    /\ cur.keys = <<98>> /\ cur.out = <<50>>

(***************************************************************************)
(* C4: a timeout call never returns AMBIGUOUS and arms no timer (it adds   *)
(* no source and leaves the stored id alone); when it returns the queue is *)
(* empty.  With a -> 1 and ab -> 2 the active records, "a" fed to an empty *)
(* queue with the flag clear and then the timeout forward exactly 1.       *)
(***************************************************************************)
C4_TimeoutState ==
    /\ cur.timeout => cur.ret # "AMBIGUOUS"
    /\ (cur.timeout /\ Returned) => (qlen = 0 /\ resolved = 0)
    /\ (C3_Table /\ AfterFirstA /\ cur.timeout)
        => /\ prev.out = <<>>
           /\ IsPrefix(cur.out, <<49>>)
           /\ Returned => cur.out = <<49>>
           /\ pc # "ub"

C4_NoTimer ==
    /\ TimeoutEntry => (timout_id' = timout_id /\ sources' \subseteq sources)
    /\ (pc = "loop" /\ timeout) => UNCHANGED <<timout_id, sources>>

C4_Timeout == []C4_TimeoutState /\ [][C4_NoTimer]_vars

C4_Witness ==
    /\ C3_Table /\ AfterFirstA /\ Returned
    /\ cur.timeout /\ cur.out = <<49>> /\ qlen = 0


(***************************************************************************)
(* C5: a call that ends with the queue drained returns DONE if a           *)
(* resolution (a substitution or a literal fallback) happened during it,   *)
(* and NO_MATCH only if none did.                                          *)
(* (Stated as the claim states it; the code breaks it.)                    *)
(***************************************************************************)
C5_DoneIffResolved ==
    (Returned /\ cur.ret # "AMBIGUOUS")
        => (cur.ret = "DONE" <=> cur.any)

(***************************************************************************)
(* C6: a call that is no timeout, finds the queue empty, brings no more    *)
(* bytes than the queue holds and none that starts an lhs of the active    *)
(* mode (all of them non-empty) forwards exactly the bytes it was fed, in  *)
(* their order, and returns with the queue empty.                          *)
(***************************************************************************)
\* no byte of keys starts the lhs of a record of the active mode
Unmapped(keys) ==
    \A i \in 1..Len(list) :
        list[i].mode = mode
            => (list[i].inlen > 0 /\ list[i].in[1] \notin Range(keys))

C6_PassThrough ==
    (/\ ~cur.timeout /\ cur.ret # "NONE"
     /\ cur.q0 = <<>> /\ Len(cur.keys) <= Capacity
     /\ Unmapped(cur.keys))
        => /\ IsPrefix(cur.out, cur.keys)
           /\ Len(cur.out) + qlen = Len(cur.keys)
           /\ cur.out \o QSeq(queue, qlen) = cur.keys
           /\ Returned => (cur.out = cur.keys /\ qlen = 0)
           /\ pc # "ub" /\ cur.ret # "AMBIGUOUS"

C6_Witness ==
    /\ Returned /\ ActiveMaps # <<>> /\ Unmapped(cur.keys)
    /\ cur.q0 = <<>> /\ cur.keys = <<98, 99>> /\ cur.out = <<98, 99>>
    /\ qlen = 0

(***************************************************************************)
(* C7: at most one timeout source is attached at any time; a call that is  *)
(* no timeout leaves exactly the source it has just added, the one stored  *)
(* before being removed; a source that fires is gone afterwards.           *)
(***************************************************************************)
C7_Step ==
    /\ RealEntry => (sources' = {timout_id'} /\ timout_id' # timout_id)
    /\ TimeoutEntry
        => (\E id \in sources : sources' = sources \ {id})

C7_OneTimer == [](Cardinality(sources) <= 1) /\ [][C7_Step]_vars

\* two calls in a row that are no timeouts: the second one found the
\* source of the first still attached
C7_Witness ==
    /\ ~cur.timeout /\ cur.ret # "NONE"
    /\ ~prev.timeout /\ prev.ret = "AMBIGUOUS"
    /\ sources = {timout_id}

(***************************************************************************)
(* C8: after teardown no timeout source is attached, and no timeout call   *)
(* runs.  (Stated as the claim states it; the code breaks it.)             *)
(***************************************************************************)
C8_NoTimerAfterCleanup ==
    cleaned => (sources = {} /\ ~(pc = "loop" /\ timeout))

(***************************************************************************)
(* C9: a call that brings more bytes than the queue has room for appends   *)
(* the first capacity - qlen of them behind the queued bytes, which stay   *)
(* as they are, and resolved <= qlen <= capacity holds from then on.       *)
(* (Stated as the claim states it; the code breaks it.)                    *)
(***************************************************************************)
\* the call of cur brought more bytes than there was room for
Overfed == ~cur.timeout /\ Len(cur.q0) + Len(cur.keys) > Capacity

C9_Overflow ==
    Overfed
        => /\ resolved <= qlen /\ qlen <= Capacity
           /\ (pc = "loop" /\ lookq = <<>> /\ cur.out = <<>>)
               => /\ qlen = Capacity
                  /\ QSeq(queue, qlen)
                       = cur.q0 \o SubSeq(cur.keys, 1, Capacity - Len(cur.q0))

(***************************************************************************)
(* C10: the record whose substitution is applied is, among the records of  *)
(* the active mode whose lhs heads the queue, one of greatest lhs length   *)
(* and among those the one nearest the head of the list; map_insert puts   *)
(* each new record at the head, so that one is the most recently inserted. *)
(* With ab -> 2 inserted after ab -> x, "ab" forwards 2.                   *)
(***************************************************************************)
\* the records of the active mode whose lhs heads the bytes q
Candidates(q) ==
    {i \in 1..Len(list) : list[i].mode = mode /\ IsPrefix(list[i].in, q)}

\* i is the candidate the claim names
Preferred(i, q) ==
    /\ i \in Candidates(q)
    /\ \A j \in Candidates(q) :
           \/ Len(list[j].in) < Len(list[i].in)
           \/ (Len(list[j].in) = Len(list[i].in) /\ i <= j)

C10_Step ==
    /\ (AtLookup /\ pc' = "loop" /\ match' # NULL)
        => /\ Preferred(match', QSeq(queue, qlen))
           /\ IsPrefix(list[match'].mapped, QSeq(queue', qlen'))
    /\ Len(list') > Len(list)
        => (Len(list') = Len(list) + 1 /\ Tail(list') = list)

C10_State ==
    (/\ ActiveMaps = <<Rec(<<97, 98>>, <<50>>, mode),
                       Rec(<<97, 98>>, <<120>>, mode)>>
     /\ Returned /\ cur.keys = <<97, 98>> /\ cur.q0 = <<>> /\ ~cur.nomap)
        => cur.out = <<50>>

C10_BestMatch == []C10_State /\ [][C10_Step]_vars

\* a substitution has been chosen while an older record of the mode has
\* the same lhs and another rhs
C10_Witness ==
    /\ pc = "loop" /\ match # NULL
    /\ \E j \in 1..Len(list) :
           /\ j > match
           /\ list[j].mode = mode
           /\ list[j].in = list[match].in
           /\ list[j].mapped # list[match].mapped


(***************************************************************************)
(* C11: map_delete(lhs, mode) removes one record with exactly that mode    *)
(* and translated lhs and returns true, every other record staying where   *)
(* it is in the same order; when no record has that mode and lhs it        *)
(* returns false and leaves the table as it is.  (Of two records with the  *)
(* same mode and lhs one call removes one, the newer.)                     *)
(***************************************************************************)
Without(l, i) == SubSeq(l, 1, i - 1) \o SubSeq(l, i + 1, Len(l))

\* the places in table l of the records a delete of text `in`, mode md means
DeleteHits(l, in, md) ==
    {i \in 1..Len(l) : l[i].mode = md /\ l[i].in = map_convert_keys(in)}

\* any step that leaves a delete recorded is a map_delete call
C11_Step ==
    del' # NoDelete =>
        LET hits == DeleteHits(list, del'.in, del'.mode)
        IN  IF hits = {}
            THEN del'.ret = "false" /\ list' = list
            ELSE /\ del'.ret = "true"
                 /\ \E i \in hits :
                        /\ list' = Without(list, i)
                        /\ \A j \in hits : i <= j
                 /\ Cardinality(DeleteHits(list', del'.in, del'.mode))
                        = Cardinality(hits) - 1

C11_State ==
    del.ret = "false" => DeleteHits(list, del.in, del.mode) = {}

C11_Delete == []C11_State /\ [][C11_Step]_vars

\* a record was removed while its twin of the other mode stayed
C11_Witness ==
    /\ del.ret = "true"
    /\ \E i \in 1..Len(list) :
           list[i].in = map_convert_keys(del.in) /\ list[i].mode # del.mode

(***************************************************************************)
(* C12: every call of map_handle_keys terminates: a call that has entered  *)
(* the resolution loop returns DONE, NOMATCH or AMBIGUOUS, whatever table  *)
(* map_insert has built.  (A run that has left the queue array is not      *)
(* followed and counts as ended here.)  A property of FairSpec.            *)
(***************************************************************************)
C12_Terminates == (pc = "loop") ~> (pc = "ub" \/ Returned)

(***************************************************************************)
(* C13: records whose mode is not the active mode have no effect on the    *)
(* resolution: every lookup ends as it would on the table holding the      *)
(* records of the active mode only.  With some such record needing more    *)
(* keys (and no timeout) the call returns AMBIGUOUS; else with no such     *)
(* record matching the head of the queue the front byte is forwarded as it *)
(* is; else the record of the active mode that is preferred replaces its   *)
(* lhs.  A record of another mode is never the match.                      *)
(***************************************************************************)
\* places in the table t of the records whose lhs is the head of q
FullIn(t, q) == {i \in 1..Len(t) : IsPrefix(t[i].in, q)}

\* the record of t the lookup takes: the longest lhs, the first of these
BestIn(t, q) ==
    CHOOSE i \in FullIn(t, q) :
        \A j \in FullIn(t, q) :
            \/ Len(t[j].in) < Len(t[i].in)
            \/ (Len(t[j].in) = Len(t[i].in) /\ i <= j)

\* some record of t has q as a strict prefix of its lhs
LongerIn(t, q) ==
    \E i \in 1..Len(t) :
        Len(t[i].in) > Len(q) /\ SubSeq(t[i].in, 1, Len(q)) = q

C13_Step ==
    (AtLookup /\ ~flags[mode] /\ ~(cleaned /\ list # <<>>))
        => LET t == ActiveMaps
               q == QSeq(queue, qlen)
           IN  IF ~timeout /\ LongerIn(t, q)
               THEN /\ pc' = "idle" /\ cur'.ret = "AMBIGUOUS"
                    /\ queue' = queue /\ qlen' = qlen /\ cur'.out = cur.out
               ELSE IF FullIn(t, q) = {}
               THEN /\ pc' = "loop" /\ match' = NULL /\ resolved' = 1
                    /\ queue' = queue /\ qlen' = qlen
               ELSE /\ match' # NULL
                    /\ list[match'] = t[BestIn(t, q)]

C13_State == match # NULL => list[match].mode = mode

C13_OtherModes == []C13_State /\ [][C13_Step]_vars

\* "a" was forwarded as it is, with a record for "a" in the other mode
C13_Witness ==
    /\ Returned /\ ~cur.nomap /\ cur.q0 = <<>> /\ cur.keys = <<97>>
    /\ cur.out = <<97>> /\ cur.ret = "NOMATCH"
    /\ \E i \in 1..Len(list) : list[i].mode # mode /\ list[i].in = <<97>>

(***************************************************************************)
(* C14: map_convert_keys turns the token <C-x> into exactly one byte for   *)
(* every letter x, the same byte for the upper-case and the lower-case     *)
(* letter: 1 for A and a up to 26 for Z and z; plain characters before and *)
(* behind the token stay as they are, and the length returned in *len is   *)
(* the number of bytes produced.  An invariant of ConvertSpec.             *)
(***************************************************************************)
UpperCase == 65..90
LowerCase == 97..122

\* the place of the letter x in the alphabet, from 1
AlphabetPlace(x) == IF x \in UpperCase THEN x - 64 ELSE x - 96

C14_CtrlKeys ==
    /\ conv.len = Len(conv.str)
    /\ \A x \in UpperCase \cup LowerCase :
        \A pre \in {<<>>, <<97>>}, post \in {<<>>, <<98>>} :
            conv.in = pre \o CtrlToken(x) \o post
                => /\ conv.str = pre \o <<AlphabetPlace(x)>> \o post
                   /\ AlphabetPlace(x) \in 1..26
                   /\ conv.len = Len(pre) + 1 + Len(post)
    /\ \A x \in UpperCase :
            (conv.in = CtrlToken(x) \/ conv.in = CtrlToken(x + 32))
                => conv.str = <<x - 64>>

\* <C-z> has been translated to the byte 26
C14_Witness == conv.in = CtrlToken(122) /\ conv.str = <<26>> /\ conv.len = 1

(***************************************************************************)
(* C15: a replacement puts the rhs in the place of the first lhs_len bytes *)
(* of the queue and keeps the bytes behind them, in order, right behind    *)
(* the rhs; qlen changes by rhs_len - lhs_len, resolved becomes the        *)
(* smaller of lhs_len and rhs_len, and no queue position outside           *)
(* [0, capacity) is read or written.  Stated for the replacements whose    *)
(* result fits the queue; the others write behind it (C1).                 *)
(***************************************************************************)
Min(a, b) == IF a < b THEN a ELSE b

C15_Step ==
    (AtLookup /\ pc' = "loop" /\ match' # NULL)
        => LET m == list[match']
               q == QSeq(queue, qlen)
           IN  /\ QSeq(queue', qlen') = m.mapped \o SubSeq(q, m.inlen + 1, qlen)
               /\ qlen' = qlen + m.mappedlen - m.inlen
               /\ resolved' = Min(m.inlen, m.mappedlen)
               /\ ~oobread'

C15_Substitution == [][C15_Step]_vars

(***************************************************************************)
(* C16: after a replacement the first min(lhs_len, rhs_len) bytes of the   *)
(* rhs are forwarded as they are, with no lookup in between; the bytes of  *)
(* the rhs behind them stay queued, in front of the bytes that followed    *)
(* the lhs, and the next lookup looks at all of them together, so that the *)
(* rest of one expansion can start another mapping.                        *)
(***************************************************************************)
\* bytes of the rhs forwarded since the replacement by the record m
Forwarded(m) == Min(m.inlen, m.mappedlen) - resolved

C16_State ==
    (pc = "loop" /\ match # NULL /\ Len(cur.out) < MaxOut)
        => LET m == list[match]
               n == Len(cur.out)
           IN  /\ Forwarded(m) \in 0..Min(m.inlen, m.mappedlen)
               /\ n >= Forwarded(m)
               /\ SubSeq(cur.out, n - Forwarded(m) + 1, n)
                      = SubSeq(m.mapped, 1, Forwarded(m))
               /\ QSeq(queue, qlen)
                      = SubSeq(m.mapped, Forwarded(m) + 1, m.mappedlen)
                            \o SubSeq(lookq, m.inlen + 1, Len(lookq))

C16_Step ==
    /\ (pc = "loop" /\ resolved > 0)
        => /\ resolved' = resolved - 1
           /\ QSeq(queue', qlen') = Tail(QSeq(queue, qlen))
           /\ Len(cur.out) < MaxOut => cur'.out = Append(cur.out, queue[0])
           /\ match' = match /\ lookq' = lookq /\ pc' = "loop"
    /\ AtLookup => lookq' = QSeq(queue, qlen)

C16_Expansion == []C16_State /\ [][C16_Step]_vars

\* "c" alone was fed: c -> cab forwarded c, and the ab left over is being
\* replaced by a record for ab
C16_Witness ==
    /\ pc = "loop" /\ cur.keys = <<99>> /\ cur.q0 = <<>> /\ cur.out = <<99>>
    /\ match # NULL /\ list[match].in = <<97, 98>>
    /\ lookq = <<97, 98>>

(***************************************************************************)
(* C17: with FLAG_NOMAP set when the loop comes to a lookup, the table is  *)
(* not looked at for the front byte: it is neither counted ambiguous nor   *)
(* replaced, even if it matches an lhs, and goes on literally.  Draining   *)
(* a byte clears the flag, so that it is set afterwards only if the        *)
(* consumer has set it anew on that byte.                                  *)
(***************************************************************************)
C17_Step ==
    /\ (AtLookup /\ flags[mode])
        => /\ pc' = "loop" /\ cur'.ret = "RUNNING"
           /\ match' = NULL /\ resolved' = 1
           /\ queue' = queue /\ qlen' = qlen
    /\ (pc = "loop" /\ resolved > 0)
        => /\ flags'[mode] = cur'.cset
           /\ \A md \in Modes \ {mode} : flags'[md] = flags[md]

C17_State ==
    /\ (pc = "loop" /\ cur.out # <<>>) => flags[mode] = cur.cset
    /\ (pc = "loop" /\ resolved = 1 /\ match = NULL /\ lookq # <<>>)
        => QSeq(queue, qlen) = lookq

C17_NoMap == []C17_State /\ [][C17_Step]_vars

\* "a" went through literally under the flag although a record of the
\* active mode has the lhs a
C17_Witness ==
    /\ Returned /\ cur.nomap /\ cur.q0 = <<>> /\ cur.keys = <<97>>
    /\ cur.out = <<97>> /\ cur.ret = "NOMATCH"
    /\ \E i \in 1..Len(list) : list[i].mode = mode /\ list[i].in = <<97>>

(***************************************************************************)
(* C18: map.timout_id is 0 exactly when no disambiguation timer is         *)
(* pending: once the timer has fired and its call of map_handle_keys has   *)
(* returned, the id is 0 again, so that a later call with keys never       *)
(* removes a source that is gone.  (Stated as the claim states it; the     *)
(* code breaks it.)                                                        *)
(***************************************************************************)
\* the call map_timeout made has returned
TimeoutReturned == Returned /\ cur.timeout

C18_State ==
    /\ (pc = "idle" /\ ~cleaned) => ((timout_id = 0) <=> (sources = {}))
    /\ TimeoutReturned => timout_id = 0

\* a call with keys removes the source timout_id only while it is attached
C18_Step ==
    (RealEntry /\ timout_id # 0) => timout_id \in sources

C18_TimerId == []C18_State /\ [][C18_Step]_vars

(***************************************************************************)
(* C19: whenever map_handle_keys has returned AMBIGUOUS the timer is       *)
(* pending, and unless a further key arrives the timer fires and its       *)
(* timeout call forwards or replaces every queued byte and leaves the      *)
(* queue empty: no accepted byte stays queued for ever.  (A run that has   *)
(* left the queue array or walked the freed table is not followed and      *)
(* counts as ended here.)  A property of FairSpec.                         *)
(***************************************************************************)
ReturnedAmbiguous == Returned /\ cur.ret = "AMBIGUOUS"

\* a call with keys is running
FurtherKey == pc = "loop" /\ ~timeout

C19_TimerPending == ReturnedAmbiguous => (qlen > 0 /\ timout_id \in sources)

C19_Drains ==
    /\ []C19_TimerPending
    /\ ReturnedAmbiguous ~> (qlen = 0 \/ FurtherKey \/ pc = "ub")

(***************************************************************************)
(* C20: whenever map_handle_keys has returned, resolved is 0; it has       *)
(* returned DONE or NOMATCH only with an empty queue, and AMBIGUOUS only   *)
(* with a queue that is not empty and whose whole content is a strict      *)
(* prefix of the lhs of some record of the active mode.                    *)
(***************************************************************************)
C20_AtReturn ==
    Returned =>
        /\ resolved = 0
        /\ cur.ret \in {"DONE", "NOMATCH"} => qlen = 0
        /\ cur.ret = "AMBIGUOUS" => (qlen > 0 /\ LongerCandidate)

\* an AMBIGUOUS return that left the queued byte a waiting for the b of ab
C20_Witness ==
    /\ ReturnedAmbiguous /\ resolved = 0 /\ QSeq(queue, qlen) = <<97>>
    /\ \E i \in 1..Len(list) : list[i].mode = mode /\ list[i].in = <<97, 98>>
=============================================================================
